---------------------------- MODULE Spec2Model ----------------------------
(***************************************************************************)
(* FaceWallet: passkey (WebAuthn PRF) + PIN signing session.               *)
(*                                                                         *)
(* The model covers                                                        *)
(*   - AddressProvider        (src/src/contexts/AddressContext.tsx)        *)
(*   - ManualAddressInput     (src/src/components/ManualAddressInput.tsx)  *)
(*   - PasskeyProvider        (src/src/contexts/PasskeyContext.tsx 7-102)  *)
(*   - PasskeyECDSASigner     (src/src/lib/wagmi/config.ts 52-324)         *)
(*   - PasskeyManager         (src/unnamed/part_001)                       *)
(*   - SignMessage            (src/src/components/PRFTest.tsx 702-876)     *)
(*   - App mount structure    (src/unnamed/part_004)                       *)
(* and the platform credential capability (navigator.credentials) as an   *)
(* opaque, nondeterministic collaborator.                                  *)
(*                                                                         *)
(* Granularity.  One action is one run-to-completion piece of JavaScript:  *)
(* an event handler or exported function up to its first await on the      *)
(* platform, or the continuation that runs when the platform settles the   *)
(* promise.  React state setters called in one such piece are batched, and *)
(* the provider's address-change effect is flushed in the same task as the *)
(* render that changed activeAddress, so the effect is part of every       *)
(* action that changes the address.                                        *)
(*                                                                         *)
(* Two layers of callers are modelled.  Spec: any mounted consumer of the  *)
(* contexts calls the exported functions (authenticate, logout,            *)
(* refreshPasskey, checkPasskey, signer.register, the sign handler) with   *)
(* any argument.  SpecUI: the user drives the rendered PasskeyManager and  *)
(* SignMessage controls, and a control that is not rendered or is disabled *)
(* cannot be used.  SpecSeq is Spec with a consumer that awaits each       *)
(* authenticate and register call before it makes the next one.            *)
(***************************************************************************)
EXTENDS Integers, Sequences, FiniteSets, Bags, TLC

VARIABLES
    \* ---- AddressProvider
    walletAddress,      \* useAccount(): connected wallet address or NoAddress
    manualAddress,      \* useState manualAddress
    mode,               \* useState mode: "wallet" | "manual"
    storage,            \* localStorage: [manual, mode]; writes succeed
    \* ---- ManualAddressInput
    validationError,    \* useState validationError
    \* ---- PasskeyProvider
    hasPasskey,
    isAuthenticated,
    cachedWallet,       \* NoWallet or <<privateKey>>
    previousAddress,
    \* ---- PasskeyManager (component state, reset when it unmounts)
    mgr,                \* [pin, isLoading, error, success]
    \* ---- SignMessage (component state, reset when it unmounts)
    sm,                 \* [signature, error]
    \* ---- platform credential capability
    credentials,        \* raw ids of the credentials of this relying party
    pending,            \* bag of navigator.credentials promises not settled yet
    \* ---- what the most recent completed call returned or threw
    last

vars == <<walletAddress, manualAddress, mode, storage, validationError,
          hasPasskey, isAuthenticated, cachedWallet, previousAddress,
          mgr, sm, credentials, pending, last>>

sessionVars == <<isAuthenticated, cachedWallet>>

-----------------------------------------------------------------------------
(* Bounds *)

MaxPending == 2    \* platform promises that may be unsettled at one time
MaxCreds == 2      \* credentials the platform may hold
MaxTime == 1       \* readings of the clock at a write
MaxChallenge == 2  \* values crypto.getRandomValues may give a challenge

-----------------------------------------------------------------------------
(* Values *)

NoAddress == "null"
NoWallet == <<>>
NoCred == <<>>
None == "none"

\* Addresses as the wallet connector reports them (checksummed).
WalletAddresses == {"0xAb"}

\* What a user may type into the manual address field.  "0xab" is an
\* all-lowercase address, "0xaB" has a wrong checksum.
AddressInputs == {"0xab", "0xaB", "Ab", " "}

\* What the user of the address screen types: also the very address the
\* wallet reports.
ManualInputs == AddressInputs \cup WalletAddresses

\* input.trim() === ''
IsBlank(input) == input \in {"", " "}

\* input.startsWith('0x')
StartsWith0x(input) == input \in {"0xAb", "0xab", "0xaB"}

\* viem isAddress: hex of the right length, lower case or correctly checksummed
IsAddress(input) == input \in {"0xAb", "0xab"}

\* PINs are sequences of characters.
Digits == {"0", "1", "2", "3", "4", "5", "6", "7", "8", "9"}
PinA == <<"1", "2", "3", "4", "5", "6">>
PinShort == <<"1", "2", "3", "4", "5">>
PinAlpha == <<"a", "b", "c", "d", "e", "f">>
PinB == <<"6", "5", "4", "3", "2", "1">>
EmptyPin == <<>>

\* Arguments a caller may pass to authenticate(pin) and register(_, pin).
Pins == {PinA, PinShort, PinAlpha}

\* Well-formed PINs given to the key derivation.
DerivePins == {PinA, PinB}

\* What the PIN <Input> can hold: onChange strips non-digits, maxLength is 6.
PinFieldValues == {EmptyPin, PinShort, PinA}

Messages == {"", "hello"}

\* What the user of a signing session types into the message field.
SignMessages == Messages \cup {"bye"}

-----------------------------------------------------------------------------
(* Pure functions *)

PinLength == 6

\* The format check without the digits test.
ValidPinLengthOnly(pin) == ~(Len(pin) # PinLength)

\* config.ts 128 / 255: pin.length !== 6 || !/^\d{6}$/.test(pin)
ValidPin(pin) ==
    ~(Len(pin) # PinLength \/ ~(\A i \in 1..Len(pin) : pin[i] \in Digits))

\* part_001 27 / 58: the handlers test the length only
PinLengthOk(pin) == Len(pin) = PinLength

\* Digests are scaled down from 256 bits to the residues modulo HashMod;
\* the curve order is the largest residue, so 0 and HashMod - 1 are the
\* values that are not valid secret keys.
HashMod == 8
CurveOrder == HashMod - 1

Alphabet == <<"0", "1", "2", "3", "4", "5", "6", "7", "8", "9",
              "a", "b", "c", "d", "e", "f">>

\* new TextEncoder().encode(pin): one byte per character
CharCodes ==
    [ch \in {Alphabet[i] : i \in 1..Len(Alphabet)} |->
        CHOOSE i \in 1..Len(Alphabet) : Alphabet[i] = ch]

CharCode(c) == CharCodes[c]

RECURSIVE Absorb(_, _)
Absorb(bytes, h) ==
    IF bytes = <<>> THEN h
    ELSE Absorb(Tail(bytes), (h * 3 + CharCode(Head(bytes)) + 1) % HashMod)

\* crypto.subtle.digest('SHA-256', new TextEncoder().encode(pin))
Sha256(pin) == Absorb(pin, 5)

\* The authenticator's PRF: a fixed function of the credential and of the
\* evaluation input (extensions.prf.eval.first).
Prf(cred, input) == (cred * 3 + input * 5 + 1) % HashMod

\* ethers keccak256
Keccak256(x) == (x * 7 + 3) % HashMod

\* secp256k1: a secret key is a nonzero scalar below the curve order
IsValidKey(k) == k # 0 /\ k < CurveOrder

\* A derivation that mixes in what the device holds.
DeriveKeyDeviceBound(prfOutput) ==
    Keccak256((prfOutput + Cardinality(credentials)) % HashMod)

\* config.ts 301-306: privateKeyHex = keccak256(prfOutput); new ethers.Wallet
DeriveKey(prfOutput) == Keccak256(prfOutput)

\* ethers Wallet.signMessage: deterministic in the key and the message
SignMessage(wallet, message) == <<wallet[1], message>>

\* PasskeyECDSASigner.ts 16: new TextEncoder().encode('ecdsa-signing-key-v1'),
\* the evaluation input of the signer that takes no PIN
PrfSalt == Sha256(<<"e", "c", "d", "a">>)

\* @noble/hashes sha256 on key bytes.  Nothing in the code excludes that the
\* digests of values that are not keys lead back to one of them; here the
\* digest of 0 is 0.
NobleSha256(x) == (x * 7) % HashMod

\* PasskeyECDSASigner.ts 213-215: the while loop leaves when it meets a valid
\* key.  It counts no iterations and throws nothing, so it does not leave
\* when the digests come back to a value already seen.
RECURSIVE EnsureValidReturns(_, _)
EnsureValidReturns(key, seen) ==
    \/ IsValidKey(key)
    \/ /\ key \notin seen
       /\ EnsureValidReturns(NobleSha256(key), seen \cup {key})

\* PasskeyECDSASigner.ts 211-217: the value returned when the loop leaves
RECURSIVE EnsureValidPrivateKey(_)
EnsureValidPrivateKey(key) ==
    IF IsValidKey(key) THEN key ELSE EnsureValidPrivateKey(NobleSha256(key))

\* config.ts 316-323 for a one-byte rawId: the two base64 sextets
BufferToBase64(rawId) == <<rawId \div 4, (rawId % 4) * 16>>

\* A validation that stops after the prefix test.
ValidateAddressPrefixOnly(input) ==
    IF IsBlank(input) THEN "Address is required"
    ELSE IF ~StartsWith0x(input) THEN "Address must start with 0x"
    ELSE None

\* ManualAddressInput.tsx 14-28
ValidateAddress(input) ==
    IF IsBlank(input) THEN "Address is required"
    ELSE IF ~StartsWith0x(input) THEN "Address must start with 0x"
    ELSE IF ~IsAddress(input) THEN "Invalid Ethereum address format"
    ELSE None

\* A selection that falls back to the other source when the preferred one
\* has no address.
AddressStateFallback(m, wallet, manual) ==
    IF wallet # NoAddress /\ (m = "wallet" \/ manual = NoAddress)
    THEN [address |-> wallet, source |-> "wallet"]
    ELSE IF manual # NoAddress
         THEN [address |-> manual, source |-> "manual"]
         ELSE [address |-> NoAddress, source |-> None]

\* AddressContext.tsx 54-61
AddressState(m, wallet, manual) ==
    IF m = "wallet" /\ wallet # NoAddress
    THEN [address |-> wallet, source |-> "wallet"]
    ELSE IF m = "manual" /\ manual # NoAddress
         THEN [address |-> manual, source |-> "manual"]
         ELSE [address |-> NoAddress, source |-> None]

activeAddress == AddressState(mode, walletAddress, manualAddress).address

\* AddressContext.tsx 36-44
LoadMode(saved) == IF saved = "manual" THEN "manual" ELSE "wallet"


-----------------------------------------------------------------------------
(* Component state *)

\* part_001 19-22: useState('') / false / null / null
MgrInit == [pin |-> EmptyPin, isLoading |-> FALSE, error |-> None, success |-> None]

\* PRFTest.tsx 712-718: signature '' and error null
SmInit == [signature |-> <<>>, error |-> None]

\* What a call returned or threw; gateway counts the navigator.credentials
\* calls it made.  outlived is copied from the call (see Call).
Outcome(op, out, wallet, cred, existing, gateway) ==
    [op |-> op, outcome |-> out, wallet |-> wallet, credentialId |-> cred,
     isExisting |-> existing, gateway |-> gateway, outlived |-> FALSE]

Done(op, out) == Outcome(op, out, NoWallet, NoCred, FALSE, 0)

\* part_004 47-52: AccountDisplay, PasskeyManager and SignMessage are rendered
\* only while there is an active address
Mounted == activeAddress # NoAddress

\* part_004 87-121: the welcome screen with the ManualAddressInput tab
ManualInputMounted == activeAddress = NoAddress /\ mode = "manual"

\* The bag b with every call c replaced by f[c].
MapBag(b, f) ==
    LET image == {f[c] : c \in BagToSet(b)} IN
    [d \in image |-> LET pre == {c \in BagToSet(b) : f[c] = d} IN
                     IF Cardinality(pre) = 1
                     THEN CopiesIn(CHOOSE c \in pre : TRUE, b)
                     ELSE CopiesIn(d, b)
                          + CopiesIn(CHOOSE c \in pre : c # d, b)]

\* A handler of an unmounted PasskeyManager still runs when its promise
\* settles, but its setState calls reach no component.
Detach(b) ==
    MapBag(b, [c \in BagToSet(b) |->
                  [c EXCEPT !.ui = IF c.ui = "mgr" THEN "gone" ELSE c.ui]])

\* A logout or a change of the active address happens while the calls of b
\* are waiting for the platform.
Outlive(b) ==
    MapBag(b, [c \in BagToSet(b) |->
                  [c EXCEPT !.outlived = (c.kind = "authenticate")]])

-----------------------------------------------------------------------------
(* Initial state: the providers are mounted, the wallet connector has not  *)
(* reported an account yet, localStorage holds what an earlier run wrote.  *)

Init ==
    /\ walletAddress = NoAddress
    /\ storage \in {[manual |-> NoAddress, mode |-> "null",
                       registered |-> {}, credentialStore |-> {}]}
                   \cup [manual : {NoAddress, "0xab"}, mode : {"wallet", "manual"},
                         registered : {{}}, credentialStore : {{}}]
    /\ manualAddress = storage.manual
    /\ mode = LoadMode(storage.mode)
    /\ validationError = None
    /\ hasPasskey = FALSE
    /\ isAuthenticated = FALSE
    /\ cachedWallet = NoWallet
    /\ previousAddress = activeAddress
    /\ mgr = MgrInit
    /\ sm = SmInit
    /\ credentials \in {{}, {1}}
    /\ pending = EmptyBag
    /\ last = Done("mount", "ok")

-----------------------------------------------------------------------------
(* AddressProvider and the provider's address-change effect *)

\* The effect without its two session setters.
AddressEffectKeepsSession(newActive) ==
    /\ previousAddress' = newActive
    /\ hasPasskey' = IF newActive # previousAddress THEN FALSE ELSE hasPasskey
    /\ UNCHANGED <<cachedWallet, isAuthenticated>>

\* PasskeyContext.tsx 66-83: the effect that runs after a render with the
\* new active address.  checkPasskey() (18-21) sets hasPasskey to false.
AddressEffect(newActive) ==
    /\ previousAddress' = newActive
    /\ IF newActive # previousAddress
       THEN /\ cachedWallet' = NoWallet
            /\ isAuthenticated' = FALSE
            /\ hasPasskey' = FALSE
       ELSE UNCHANGED <<cachedWallet, isAuthenticated, hasPasskey>>

\* part_004 47-126: what is mounted follows the active address.
Remount(newActive) ==
    /\ IF newActive = NoAddress
       THEN /\ mgr' = MgrInit
            /\ sm' = SmInit
       ELSE UNCHANGED <<mgr, sm>>
    /\ pending' = LET b == IF newActive # previousAddress
                           THEN Outlive(pending) ELSE pending
                  IN  IF newActive = NoAddress THEN Detach(b) ELSE b
    /\ validationError' =
          IF newActive = NoAddress /\ mode' = "manual" /\ ManualInputMounted
          THEN validationError ELSE None

\* A render with new address state, followed by the effect.
Rerender ==
    LET newActive == AddressState(mode', walletAddress', manualAddress').address IN
    /\ AddressEffect(newActive)
    /\ Remount(newActive)
    /\ last' = Done("addressChange",
                    IF newActive = previousAddress THEN "same"
                    ELSE IF isAuthenticated THEN "signedOut" ELSE "changed")
    /\ UNCHANGED <<credentials>>

\* useAccount(): the wallet connects, disconnects or switches account
WalletChange(w) ==
    /\ w # walletAddress
    /\ walletAddress' = w
    /\ UNCHANGED <<manualAddress, mode, storage>>
    /\ Rerender

\* AddressContext.tsx 81-88
SetMode(newMode) ==
    /\ mode' = newMode
    /\ storage' = [storage EXCEPT !.mode = newMode]
    /\ UNCHANGED <<walletAddress, manualAddress>>
    /\ Rerender

\* ManualAddressInput.tsx 46-60 with AddressContext.tsx 63-70
HandleSetAddress(input) ==
    /\ ManualInputMounted
    /\ IF ValidateAddress(input) # None
       THEN /\ validationError' = ValidateAddress(input)
            /\ last' = Done("setAddress", ValidateAddress(input))
            /\ UNCHANGED <<walletAddress, manualAddress, mode, storage,
                           hasPasskey, isAuthenticated, cachedWallet,
                           previousAddress, mgr, sm, credentials, pending>>
       ELSE /\ manualAddress' = input
            /\ storage' = [storage EXCEPT !.manual = input]
            /\ UNCHANGED <<walletAddress, mode>>
            /\ Rerender

\* AddressContext.tsx 72-79, called from AccountDisplay (part_002 92-101)
ClearManualAddress ==
    /\ AddressState(mode, walletAddress, manualAddress).source = "manual"
    /\ manualAddress' = NoAddress
    /\ storage' = [storage EXCEPT !.manual = NoAddress]
    /\ UNCHANGED <<walletAddress, mode>>
    /\ Rerender

-----------------------------------------------------------------------------
(* Platform credential capability (navigator.credentials)                  *)

\* How the platform may settle navigator.credentials.get: it rejects (the
\* user cancels, the prompt times out, no credential is available), resolves
\* null, or resolves an assertion of one of the credentials, with or without
\* PRF results.
GetOutcomes ==
    {[kind |-> "rejected", cred |-> 0, prf |-> FALSE],
     [kind |-> "null", cred |-> 0, prf |-> FALSE]}
    \cup {[kind |-> "assertion", cred |-> k, prf |-> b] :
              k \in credentials, b \in BOOLEAN}

\* The raw id the platform gives the next credential it creates.
FreshCred == CHOOSE k \in 1..(MaxCreds + 1) : k \notin credentials

\* How the platform may settle navigator.credentials.create: it rejects, or
\* it creates a credential, with or without the PRF extension enabled.
CreateOutcomes ==
    {[kind |-> "rejected", cred |-> 0, prf |-> FALSE]}
    \cup {[kind |-> "created", cred |-> FreshCred, prf |-> b] :
              b \in (IF Cardinality(credentials) < MaxCreds THEN BOOLEAN ELSE {})}

\* A passkey created on another device arrives through the platform's sync.
SyncCredential ==
    /\ Cardinality(credentials) < MaxCreds
    /\ credentials' = credentials \cup {FreshCred}
    /\ UNCHANGED <<walletAddress, manualAddress, mode, storage, validationError,
                   hasPasskey, isAuthenticated, cachedWallet, previousAddress,
                   mgr, sm, pending, last>>

\* A signer call waiting for the platform.  ui: "mgr" when a handler of the
\* mounted PasskeyManager awaits it, "none" when another consumer does.
\* outlived: a logout or a change of the active address has happened since
\* the call was made (the code keeps no such mark).
Call(kind, phase, pin, ui) ==
    [kind |-> kind, phase |-> phase, pin |-> pin, ui |-> ui, outlived |-> FALSE]

\* The platform shows one more prompt.
Issue(c) == pending (+) SetToBag({c})

\* The platform has settled the promise of c.
Settle(c) == pending (-) SetToBag({c})

InFlight == BagCardinality(pending)


-----------------------------------------------------------------------------
(* PasskeyECDSASigner                                                      *)

\* config.ts 286-313: what signer.authenticate returns or throws once the
\* platform has settled credentials.get with outcome o.
SignerAuthenticate(pin, o) ==
    IF o.kind = "rejected"
    THEN Outcome("authenticate", "NotAllowedError", NoWallet, NoCred, FALSE, 1)
    ELSE IF o.kind = "null"
    THEN Outcome("authenticate", "TypeError", NoWallet, NoCred, FALSE, 1)
    ELSE IF ~o.prf
    THEN Outcome("authenticate", "Authentication failed", NoWallet, NoCred, FALSE, 1)
    ELSE LET privateKey == DeriveKey(Prf(o.cred, Sha256(pin))) IN
         IF ~IsValidKey(privateKey)
         THEN Outcome("authenticate", "invalid private key", NoWallet, NoCred, FALSE, 1)
         ELSE Outcome("authenticate", "ok", <<privateKey>>,
                      BufferToBase64(o.cred), FALSE, 1)

\* config.ts 159-176: the probe of register.  TRUE when register returns the
\* existing credential; FALSE (the promise rejected or resolved null) when
\* it goes on to create one.
ProbeFound(o) == o.kind = "assertion"

\* config.ts 165-172
SignerRegisterExisting(o) ==
    Outcome("register", "ok", NoWallet, BufferToBase64(o.cred), TRUE, 1)

\* config.ts 196-238: what register returns or throws once the platform has
\* settled credentials.create with outcome o.
SignerRegisterCreated(o) ==
    IF o.kind = "rejected"
    THEN Outcome("register", "NotAllowedError", NoWallet, NoCred, FALSE, 2)
    ELSE IF ~o.prf
    THEN Outcome("register", "PRF extension not supported", NoWallet, NoCred, FALSE, 2)
    ELSE Outcome("register", "ok", NoWallet, BufferToBase64(o.cred), FALSE, 2)

\* config.ts 120-163: register(walletAddress, pin) up to the await on the
\* probe.  Leaves mgr and hasPasskey to the caller.
Register(pin, ui) ==
    IF ~ValidPin(pin)
    THEN /\ last' = Done("register", "PIN must be exactly 6 digits")
         /\ UNCHANGED <<pending>>
    ELSE /\ InFlight < MaxPending
         /\ pending' = Issue(Call("register", "get", pin, ui))
         /\ UNCHANGED last

-----------------------------------------------------------------------------
(* PasskeyProvider                                                         *)

\* authenticate without its fast path.
NeverAlreadyAuthenticated == FALSE

\* PasskeyContext.tsx 39
AlreadyAuthenticated == isAuthenticated /\ cachedWallet # NoWallet

\* A catch block that only rethrows.
AuthenticateFailedKeepsSession == UNCHANGED <<isAuthenticated, cachedWallet>>

\* A catch block that clears the flag and keeps the account.
AuthenticateFailedKeepsWallet ==
    /\ isAuthenticated' = FALSE
    /\ cachedWallet' = cachedWallet

\* PasskeyContext.tsx 50-54: the catch block of authenticate
AuthenticateFailed ==
    /\ isAuthenticated' = FALSE
    /\ cachedWallet' = NoWallet

\* A success branch that forgets to cache the account.
AuthenticateSucceededNoCache(wallet) ==
    /\ cachedWallet' = cachedWallet
    /\ isAuthenticated' = TRUE
    /\ hasPasskey' = TRUE

\* PasskeyContext.tsx 45-47
AuthenticateSucceeded(wallet) ==
    /\ cachedWallet' = wallet
    /\ isAuthenticated' = TRUE
    /\ hasPasskey' = TRUE

\* PasskeyContext.tsx 32-44 with config.ts 246-290: authenticate(pin) up to
\* the await on credentials.get.  Leaves mgr and hasPasskey to the caller.
Authenticate(pin, ui) ==
    IF activeAddress = NoAddress
    THEN /\ last' = Done("authenticate", "No active address")
         /\ UNCHANGED <<isAuthenticated, cachedWallet, pending>>
    ELSE IF AlreadyAuthenticated
    THEN /\ last' = Outcome("authenticate", "ok", cachedWallet, NoCred, FALSE, 0)
         /\ UNCHANGED <<isAuthenticated, cachedWallet, pending>>
    ELSE IF ~ValidPin(pin)
    THEN /\ AuthenticateFailed
         /\ last' = Done("authenticate", "PIN must be exactly 6 digits")
         /\ UNCHANGED <<pending>>
    ELSE /\ InFlight < MaxPending
         /\ pending' = Issue(Call("authenticate", "get", pin, ui))
         /\ UNCHANGED <<isAuthenticated, cachedWallet, last>>

\* A logout that leaves the account cached.
LogoutKeepsWallet ==
    /\ cachedWallet' = cachedWallet
    /\ isAuthenticated' = FALSE

\* PasskeyContext.tsx 60-63
Logout ==
    /\ cachedWallet' = NoWallet
    /\ isAuthenticated' = FALSE

\* checkPasskey that also drops the session.
CheckPasskeyDropsSession ==
    /\ hasPasskey' = FALSE
    /\ isAuthenticated' = FALSE
    /\ cachedWallet' = NoWallet

\* PasskeyContext.tsx 18-21
CheckPasskey ==
    /\ hasPasskey' = FALSE
    /\ UNCHANGED <<isAuthenticated, cachedWallet>>

\* PasskeyContext.tsx 24-29; bound tells whether the render the caller's
\* closure comes from had an active address
RefreshPasskey(bound) ==
    /\ hasPasskey' = IF bound THEN TRUE ELSE hasPasskey
    /\ UNCHANGED <<isAuthenticated, cachedWallet>>

-----------------------------------------------------------------------------
(* PasskeyManager                                                          *)

\* part_001 63-65 / 32-34
MgrLoading(m) == [m EXCEPT !.isLoading = TRUE, !.error = None, !.success = None]

\* A handler without its finally block.
MgrAfterAuthenticateNoFinally(m, out) ==
    IF out = "ok"
    THEN [m EXCEPT !.success = "Passkey authenticated successfully!",
                   !.pin = EmptyPin, !.isLoading = FALSE]
    ELSE [m EXCEPT !.error = out]

\* part_001 69-71 and 73-77: what handleAuthenticate does with the result
MgrAfterAuthenticate(m, out) ==
    IF out = "ok"
    THEN [m EXCEPT !.success = "Passkey authenticated successfully!",
                   !.pin = EmptyPin, !.isLoading = FALSE]
    ELSE [m EXCEPT !.error = out, !.isLoading = FALSE]

\* part_001 38-52: what handleCreatePasskey does with register's result
MgrAfterRegister(m, r) ==
    IF r.outcome = "ok"
    THEN [m EXCEPT !.success = IF r.isExisting
                                THEN "Using existing passkey for this address!"
                                ELSE "Passkey created successfully!",
                   !.pin = EmptyPin, !.isLoading = FALSE]
    ELSE [m EXCEPT !.error = r.outcome, !.isLoading = FALSE]

\* part_001 55-79: handleAuthenticate up to the await
HandleAuthenticate ==
    /\ Mounted
    /\ IF ~PinLengthOk(mgr.pin)
       THEN /\ mgr' = [mgr EXCEPT !.error = "PIN must be 6 digits"]
            /\ last' = Done("authenticate", "PIN must be 6 digits")
            /\ UNCHANGED <<isAuthenticated, cachedWallet, pending>>
       ELSE /\ Authenticate(mgr.pin, "mgr")
            /\ mgr' = IF pending' # pending
                      THEN MgrLoading(mgr)
                      ELSE MgrAfterAuthenticate(MgrLoading(mgr), last'.outcome)
    /\ UNCHANGED <<walletAddress, manualAddress, mode, storage, validationError,
                   hasPasskey, previousAddress, sm, credentials>>

\* part_001 24-37: handleCreatePasskey up to the await
HandleCreatePasskey ==
    /\ Mounted
    /\ IF ~PinLengthOk(mgr.pin)
       THEN /\ mgr' = [mgr EXCEPT !.error = "PIN must be 6 digits"]
            /\ last' = Done("register", "PIN must be 6 digits")
            /\ UNCHANGED <<pending>>
       ELSE /\ Register(mgr.pin, "mgr")
            /\ mgr' = IF pending' # pending
                      THEN MgrLoading(mgr)
                      ELSE MgrAfterRegister(MgrLoading(mgr), last')
    /\ UNCHANGED <<walletAddress, manualAddress, mode, storage, validationError,
                   hasPasskey, isAuthenticated, cachedWallet, previousAddress,
                   sm, credentials>>

\* part_001 81-85
HandleLogout ==
    /\ Mounted
    /\ Logout
    /\ mgr' = [mgr EXCEPT !.success = "Logged out successfully"]
    /\ pending' = Outlive(pending)
    /\ last' = Done("logout", "ok")
    /\ UNCHANGED <<walletAddress, manualAddress, mode, storage, validationError,
                   hasPasskey, previousAddress, sm, credentials>>

\* part_001 138-153: the PIN input is rendered while there is no passkey or
\* no session
PinInputShown == ~hasPasskey \/ ~isAuthenticated

\* part_001 150
TypePin(p) ==
    /\ Mounted /\ PinInputShown
    /\ p # mgr.pin
    /\ mgr' = [mgr EXCEPT !.pin = p]
    /\ UNCHANGED <<walletAddress, manualAddress, mode, storage, validationError,
                   hasPasskey, isAuthenticated, cachedWallet, previousAddress,
                   sm, credentials, pending, last>>

\* part_001 47 / 71 / 84: setTimeout(() => setSuccess(null), 3000)
SuccessTimeout ==
    /\ Mounted /\ mgr.success # None
    /\ mgr' = [mgr EXCEPT !.success = None]
    /\ UNCHANGED <<walletAddress, manualAddress, mode, storage, validationError,
                   hasPasskey, isAuthenticated, cachedWallet, previousAddress,
                   sm, credentials, pending, last>>


-----------------------------------------------------------------------------
(* Continuations: the platform settles a pending promise                   *)

\* PasskeyContext.tsx 44-54 with config.ts 286-313 and part_001 67-78: the
\* platform settles the credentials.get of an authenticate call.
AuthenticateSettles(c, o) ==
    /\ BagIn(c, pending) /\ c.kind = "authenticate"
    /\ o \in GetOutcomes
    /\ LET r == SignerAuthenticate(c.pin, o) IN
       /\ IF r.outcome = "ok"
          THEN AuthenticateSucceeded(r.wallet)
          ELSE AuthenticateFailed /\ UNCHANGED hasPasskey
       /\ mgr' = IF c.ui = "mgr" THEN MgrAfterAuthenticate(mgr, r.outcome) ELSE mgr
       /\ last' = [r EXCEPT !.outlived = c.outlived]
    /\ pending' = Settle(c)
    /\ UNCHANGED <<walletAddress, manualAddress, mode, storage, validationError,
                   previousAddress, sm, credentials>>

\* register has returned or thrown r.  A PasskeyManager handler that awaited
\* it (part_001 37-52) goes on even when its component is gone; the closure
\* of its refreshPasskey has an active address (part_001 25).
RegisterReturns(c, r) ==
    /\ IF r.outcome = "ok" /\ c.ui # "none"
       THEN RefreshPasskey(TRUE)
       ELSE UNCHANGED <<hasPasskey, isAuthenticated, cachedWallet>>
    /\ mgr' = IF c.ui = "mgr" THEN MgrAfterRegister(mgr, r) ELSE mgr
    /\ last' = r

\* config.ts 159-196: the platform settles the probe of a register call
RegisterProbeSettles(c, o) ==
    /\ BagIn(c, pending) /\ c.kind = "register" /\ c.phase = "get"
    /\ o \in GetOutcomes
    /\ IF ProbeFound(o)
       THEN /\ RegisterReturns(c, SignerRegisterExisting(o))
            /\ pending' = Settle(c)
       ELSE /\ pending' = Settle(c) (+) SetToBag({[c EXCEPT !.phase = "create"]})
            /\ UNCHANGED <<hasPasskey, isAuthenticated, cachedWallet, mgr, last>>
    /\ UNCHANGED <<walletAddress, manualAddress, mode, storage, validationError,
                   previousAddress, sm, credentials>>

\* config.ts 196-238: the platform settles the credentials.create of a
\* register call
RegisterCreateSettles(c, o) ==
    /\ BagIn(c, pending) /\ c.kind = "register" /\ c.phase = "create"
    /\ o \in CreateOutcomes
    /\ credentials' = IF o.kind = "created" THEN credentials \cup {o.cred}
                      ELSE credentials
    /\ RegisterReturns(c, SignerRegisterCreated(o))
    /\ pending' = Settle(c)
    /\ UNCHANGED <<walletAddress, manualAddress, mode, storage, validationError,
                   previousAddress, sm>>

-----------------------------------------------------------------------------
(* The writers of sessionStorage and IndexedDB                             *)

\* String.prototype.toLowerCase on the addresses of this model
ToLowerCase(address) ==
    IF address \in {"0xAb", "0xab", "0xaB"} THEN "0xab"
    ELSE IF address = "Ab" THEN "ab"
    ELSE address

\* PasskeyECDSASigner.ts 77: slice(0, 6) + '...' + slice(-4); the addresses
\* of this model are shorter than either slice
TruncatedAddress(address) ==
    IF address = "0xAb" THEN "0xAb...0xAb"
    ELSE IF address = "0xab" THEN "0xab...0xab"
    ELSE "..."

\* Date.now() at the time of a write
Timestamps == 1..MaxTime

\* A record that also keeps the derived key.
CredentialDataWithKey(cred, address, t) ==
    [credentialId |-> BufferToBase64(cred),
     address |-> address,
     username |-> TruncatedAddress(address),
     createdAt |-> t,
     privateKey |-> Keccak256(Prf(cred, PrfSalt))]

\* PasskeyECDSASigner.ts 127-132
CredentialData(cred, address, t) ==
    [credentialId |-> BufferToBase64(cred),
     address |-> address,
     username |-> TruncatedAddress(address),
     createdAt |-> t]

\* storage.ts 25-32: db.put with keyPath 'credentialId'
SaveCredential(store, credential) ==
    {r \in store : r.credentialId # credential.credentialId} \cup {credential}

\* PasskeyContext.tsx 154-162 and 183-190: the set written to
\* sessionStorage under 'facewallet_registered_addresses'
AddRegistered(registered, address) == registered \cup {ToLowerCase(address)}

\* PasskeyECDSASigner.ts 67-141: register(walletAddress) of the signer that
\* keeps its credentials in IndexedDB, with the platform's answer o to
\* credentials.create and the time t of the write.
RegisterAndSave(o, t) ==
    /\ Mounted
    /\ o \in CreateOutcomes /\ o.kind = "created"
    /\ t \in Timestamps
    /\ credentials' = credentials \cup {o.cred}
    /\ IF ~o.prf
       THEN /\ last' = Done("register", "PRF extension not supported or failed")
            /\ UNCHANGED storage
       ELSE LET prfOutput == Prf(o.cred, PrfSalt)
                privateKey == EnsureValidPrivateKey(prfOutput)
                credentialData == CredentialData(o.cred, activeAddress, t)
            IN  IF ~EnsureValidReturns(prfOutput, {})
                THEN \* line 121 never returns: nothing is saved, and the
                     \* page answers again only after a reload
                     /\ last' = Done("register", "never returns")
                     /\ UNCHANGED storage
                ELSE /\ storage' = [storage EXCEPT !.credentialStore =
                                        SaveCredential(@, credentialData)]
                     /\ last' = Outcome("register", "ok", <<privateKey>>,
                                        credentialData.credentialId, FALSE, 1)
    /\ UNCHANGED <<walletAddress, manualAddress, mode, validationError,
                   hasPasskey, isAuthenticated, cachedWallet, previousAddress,
                   mgr, sm, pending>>

\* PasskeyContext.tsx 152-165: refreshPasskey of the provider that tracks
\* registered addresses in sessionStorage
RefreshPasskeyRegistered ==
    /\ Mounted
    /\ storage' = [storage EXCEPT !.registered = AddRegistered(@, activeAddress)]
    /\ hasPasskey' = TRUE
    /\ last' = Done("refreshPasskey", "ok")
    /\ UNCHANGED <<walletAddress, manualAddress, mode, validationError,
                   isAuthenticated, cachedWallet, previousAddress,
                   mgr, sm, credentials, pending>>

\* PasskeyContext.tsx 167-199: authenticate of the same provider, with the
\* platform's answer o to credentials.get
AuthenticateAndMark(pin, o) ==
    /\ Mounted /\ ~AlreadyAuthenticated
    /\ o \in GetOutcomes
    /\ LET r == IF ValidPin(pin) THEN SignerAuthenticate(pin, o)
                ELSE Done("authenticate", "PIN must be exactly 6 digits") IN
       /\ IF r.outcome = "ok"
          THEN /\ AuthenticateSucceeded(r.wallet)
               /\ storage' = [storage EXCEPT
                                  !.registered = AddRegistered(@, activeAddress)]
          ELSE /\ AuthenticateFailed
               /\ UNCHANGED <<hasPasskey, storage>>
       /\ last' = r
    /\ UNCHANGED <<walletAddress, manualAddress, mode, validationError,
                   previousAddress, mgr, sm, credentials, pending>>

\* A lookup that ignores the address it is given.
GetAnyCredential(store, address) ==
    IF store = {} THEN {} ELSE {CHOOSE r \in store : TRUE}

\* storage.ts 44-55: index('address').get(address), the record with the
\* least key among those of that address, as a set of at most one record
\* (null is the empty set).  The index compares addresses as they are.
GetCredentialByAddress(store, address) ==
    LET matches == {r \in store : r.address = address}
        Before(a, b) == a[1] < b[1] \/ (a[1] = b[1] /\ a[2] <= b[2])
    IN  {r \in matches : \A q \in matches : Before(r.credentialId, q.credentialId)}

NoPasskeyError == "No passkey found for this wallet address"

\* PasskeyECDSASigner.ts 147-206: authenticate(walletAddress) of the signer
\* that keeps its credentials in IndexedDB, with the platform's answer o to
\* a credentials.get that allows the stored credential only.
AuthenticateStored(o) ==
    /\ Mounted
    /\ o \in GetOutcomes
    /\ LET found == GetCredentialByAddress(storage.credentialStore, activeAddress) IN
       IF found = {}
       THEN last' = Done("authenticate", NoPasskeyError)
       ELSE LET credential == CHOOSE r \in found : TRUE
                prfOutput == Prf(o.cred, PrfSalt)
            IN  /\ o.kind = "assertion"
                   => BufferToBase64(o.cred) = credential.credentialId
                /\ last' =
                     IF o.kind = "rejected"
                     THEN Outcome("authenticate", "NotAllowedError",
                                  NoWallet, NoCred, FALSE, 1)
                     ELSE IF o.kind = "null"
                     THEN Outcome("authenticate", "TypeError",
                                  NoWallet, NoCred, FALSE, 1)
                     ELSE IF ~o.prf
                     THEN Outcome("authenticate",
                                  "PRF extension not supported or failed",
                                  NoWallet, NoCred, FALSE, 1)
                     ELSE IF ~EnsureValidReturns(prfOutput, {})
                     THEN Outcome("authenticate", "never returns",
                                  NoWallet, NoCred, FALSE, 1)
                     ELSE Outcome("authenticate", "ok",
                                  <<EnsureValidPrivateKey(prfOutput)>>,
                                  credential.credentialId, FALSE, 1)
    /\ UNCHANGED <<walletAddress, manualAddress, mode, storage, validationError,
                   hasPasskey, isAuthenticated, cachedWallet, previousAddress,
                   mgr, sm, credentials, pending>>

-----------------------------------------------------------------------------
(* Key derivation on its own                                               *)

\* config.ts 265 / PasskeyECDSASigner.ts 152: crypto.getRandomValues
Challenges == 1..MaxChallenge

\* The inputs of a derivation: a well-formed PIN in the PIN field and the
\* credentials the device holds.
InitDerive ==
    /\ walletAddress \in WalletAddresses
    /\ storage = [manual |-> NoAddress, mode |-> "wallet",
                  registered |-> {}, credentialStore |-> {}]
    /\ manualAddress = storage.manual
    /\ mode = LoadMode(storage.mode)
    /\ validationError = None
    /\ hasPasskey = FALSE
    /\ isAuthenticated = FALSE
    /\ cachedWallet = NoWallet
    /\ previousAddress = activeAddress
    /\ mgr \in {[MgrInit EXCEPT !.pin = p] : p \in DerivePins}
    /\ sm = SmInit
    /\ credentials \in {{k} : k \in 1..MaxCreds}
    /\ pending = EmptyBag
    /\ last = Done("mount", "ok")

\* What one derivation took and gave.  repeat: the derivation before it
\* took the same credential and the same evaluation input (the code keeps
\* no such record).
Derived(variant, pin, cred, challenge, outcome, wallet) ==
    [op |-> "derive", variant |-> variant, pin |-> pin, cred |-> cred,
     challenge |-> challenge, device |-> credentials,
     outcome |-> outcome, wallet |-> wallet,
     signature |-> IF outcome = "ok" THEN SignMessage(wallet, "hello") ELSE <<>>,
     repeat |-> /\ last.op = "derive"
                /\ last.variant = variant /\ last.pin = pin /\ last.cred = cred]

\* config.ts 246-313: the derivation of signer.authenticate(address, pin),
\* in some session on some device that holds credential cred, with a fresh
\* challenge, the user approving the prompt.
DeriveWithPin(cred, challenge) ==
    /\ cred \in credentials /\ challenge \in Challenges
    /\ LET r == SignerAuthenticate(mgr.pin,
                    [kind |-> "assertion", cred |-> cred, prf |-> TRUE])
       IN  last' = Derived("pin", mgr.pin, cred, challenge, r.outcome, r.wallet)
    /\ UNCHANGED <<walletAddress, manualAddress, mode, storage, validationError,
                   hasPasskey, isAuthenticated, cachedWallet, previousAddress,
                   mgr, sm, credentials, pending>>

\* PasskeyECDSASigner.ts 147-206: the derivation of the signer that takes no
\* PIN, the evaluation input being the fixed salt.
DeriveWithSalt(cred, challenge) ==
    /\ cred \in credentials /\ challenge \in Challenges
    /\ LET prfOutput == Prf(cred, PrfSalt)
           privateKey == EnsureValidPrivateKey(prfOutput)
       IN  IF EnsureValidReturns(prfOutput, {})
           THEN last' = Derived("salt", EmptyPin, cred, challenge, "ok",
                                <<privateKey>>)
           ELSE \* line 195 never returns
                last' = Derived("salt", EmptyPin, cred, challenge,
                                "never returns", NoWallet)
    /\ UNCHANGED <<walletAddress, manualAddress, mode, storage, validationError,
                   hasPasskey, isAuthenticated, cachedWallet, previousAddress,
                   mgr, sm, credentials, pending>>

\* part_001 150: the user types another PIN
EnterPin(p) ==
    /\ p # mgr.pin
    /\ mgr' = [mgr EXCEPT !.pin = p]
    /\ UNCHANGED <<walletAddress, manualAddress, mode, storage, validationError,
                   hasPasskey, isAuthenticated, cachedWallet, previousAddress,
                   sm, credentials, pending, last>>

-----------------------------------------------------------------------------
(* SignMessage                                                             *)

\* The handler without its isAuthenticated test.
HandleSignWithoutSessionTest(message) ==
    /\ Mounted
    /\ IF message = "" \/ activeAddress = NoAddress
       THEN /\ sm' = sm
            /\ last' = Done("sign", "ignored")
       ELSE IF cachedWallet = NoWallet
       THEN /\ sm' = [sm EXCEPT !.error = "Wallet not found"]
            /\ last' = Done("sign", "Wallet not found")
       ELSE /\ sm' = [signature |-> SignMessage(cachedWallet, message), error |-> None]
            /\ last' = Outcome("sign", "ok", cachedWallet, NoCred, FALSE, 0)
    /\ UNCHANGED <<walletAddress, manualAddress, mode, storage, validationError,
                   hasPasskey, isAuthenticated, cachedWallet, previousAddress,
                   mgr, credentials, pending>>

\* A handler that drops the session once it has signed.
HandleSignOneShot(message) ==
    /\ Mounted
    /\ IF message = "" \/ activeAddress = NoAddress
       THEN /\ sm' = sm
            /\ last' = Done("sign", "ignored")
            /\ UNCHANGED <<isAuthenticated, cachedWallet>>
       ELSE IF ~isAuthenticated
       THEN /\ sm' = [sm EXCEPT !.error = "Please authenticate your passkey first"]
            /\ last' = Done("sign", "Please authenticate your passkey first")
            /\ UNCHANGED <<isAuthenticated, cachedWallet>>
       ELSE IF cachedWallet = NoWallet
       THEN /\ sm' = [sm EXCEPT !.error = "Wallet not found"]
            /\ last' = Done("sign", "Wallet not found")
            /\ UNCHANGED <<isAuthenticated, cachedWallet>>
       ELSE /\ sm' = [signature |-> SignMessage(cachedWallet, message), error |-> None]
            /\ last' = Outcome("sign", "ok", cachedWallet, NoCred, FALSE, 0)
            /\ isAuthenticated' = FALSE
            /\ cachedWallet' = NoWallet
    /\ UNCHANGED <<walletAddress, manualAddress, mode, storage, validationError,
                   hasPasskey, previousAddress, mgr, credentials, pending>>

\* PRFTest.tsx 740-773
HandleSignWithPasskey(message) ==
    /\ Mounted
    /\ IF message = "" \/ activeAddress = NoAddress
       THEN /\ sm' = sm
            /\ last' = Done("sign", "ignored")
       ELSE IF ~isAuthenticated
       THEN /\ sm' = [sm EXCEPT !.error = "Please authenticate your passkey first"]
            /\ last' = Done("sign", "Please authenticate your passkey first")
       ELSE IF cachedWallet = NoWallet
       THEN /\ sm' = [sm EXCEPT !.error = "Wallet not found"]
            /\ last' = Done("sign", "Wallet not found")
       ELSE /\ sm' = [signature |-> SignMessage(cachedWallet, message), error |-> None]
            /\ last' = Outcome("sign", "ok", cachedWallet, NoCred, FALSE, 0)
    /\ UNCHANGED <<walletAddress, manualAddress, mode, storage, validationError,
                   hasPasskey, isAuthenticated, cachedWallet, previousAddress,
                   mgr, credentials, pending>>

-----------------------------------------------------------------------------
(* Calls of the exported functions by a mounted consumer of the contexts   *)

CallAuthenticate(pin) ==
    /\ Mounted
    /\ Authenticate(pin, "none")
    /\ UNCHANGED <<walletAddress, manualAddress, mode, storage, validationError,
                   hasPasskey, previousAddress, mgr, sm, credentials>>

CallRegister(pin) ==
    /\ Mounted
    /\ Register(pin, "none")
    /\ UNCHANGED <<walletAddress, manualAddress, mode, storage, validationError,
                   hasPasskey, isAuthenticated, cachedWallet, previousAddress,
                   mgr, sm, credentials>>

CallLogout ==
    /\ Mounted
    /\ Logout
    /\ pending' = Outlive(pending)
    /\ last' = Done("logout", "ok")
    /\ UNCHANGED <<walletAddress, manualAddress, mode, storage, validationError,
                   hasPasskey, previousAddress, mgr, sm, credentials>>

CallCheckPasskey ==
    /\ Mounted
    /\ CheckPasskey
    /\ last' = Done("checkPasskey", "ok")
    /\ UNCHANGED <<walletAddress, manualAddress, mode, storage, validationError,
                   previousAddress, mgr, sm, credentials, pending>>

CallRefreshPasskey ==
    /\ Mounted
    /\ RefreshPasskey(activeAddress # NoAddress)
    /\ last' = Done("refreshPasskey", "ok")
    /\ UNCHANGED <<walletAddress, manualAddress, mode, storage, validationError,
                   previousAddress, mgr, sm, credentials, pending>>

-----------------------------------------------------------------------------
(* The rendered controls                                                   *)

\* part_001 162-169
ClickCreatePasskey ==
    /\ ~hasPasskey
    /\ ~(mgr.isLoading \/ ~PinLengthOk(mgr.pin))
    /\ HandleCreatePasskey

\* part_001 175-183
ClickAuthenticate ==
    /\ hasPasskey /\ ~isAuthenticated
    /\ ~(mgr.isLoading \/ ~PinLengthOk(mgr.pin))
    /\ HandleAuthenticate

\* part_001 170-174
ClickLogout ==
    /\ hasPasskey /\ isAuthenticated
    /\ HandleLogout

\* PRFTest.tsx 830-843; isPending is the component's own isLoading (false
\* between handlers) or isChecking (PasskeyContext.tsx 10, always false)
ClickSignWithPasskey(message) ==
    /\ hasPasskey
    /\ ~(message = "" \/ ~isAuthenticated)
    /\ HandleSignWithPasskey(message)

-----------------------------------------------------------------------------
(* Specifications *)

AddressNext ==
    \/ \E w \in WalletAddresses \cup {NoAddress} : WalletChange(w)
    \/ \E m \in {"wallet", "manual"} : SetMode(m)
    \/ \E input \in AddressInputs : HandleSetAddress(input)
    \/ ClearManualAddress

PlatformNext ==
    \/ SyncCredential
    \/ \E c \in BagToSet(pending), o \in GetOutcomes : AuthenticateSettles(c, o)
    \/ \E c \in BagToSet(pending), o \in GetOutcomes : RegisterProbeSettles(c, o)
    \/ \E c \in BagToSet(pending), o \in CreateOutcomes : RegisterCreateSettles(c, o)

\* Any mounted consumer calls the exported functions.
Next ==
    \/ AddressNext
    \/ PlatformNext
    \/ \E pin \in Pins : CallAuthenticate(pin)
    \/ \E pin \in Pins : CallRegister(pin)
    \/ CallLogout
    \/ CallCheckPasskey
    \/ CallRefreshPasskey
    \/ \E message \in Messages : HandleSignWithPasskey(message)

Spec == Init /\ [][Next]_vars

\* The user drives the rendered controls.
NextUI ==
    \/ AddressNext
    \/ PlatformNext
    \/ \E p \in PinFieldValues : TypePin(p)
    \/ ClickCreatePasskey
    \/ ClickAuthenticate
    \/ ClickLogout
    \/ \E message \in Messages : ClickSignWithPasskey(message)
    \/ SuccessTimeout

SpecUI == Init /\ [][NextUI]_vars

\* The platform settles every prompt it shows: the user answers it or the
\* timeout of the request (config.ts 144, 271; the platform's own for create)
\* rejects it.
PlatformSettles ==
    \/ \E c \in BagToSet(pending), o \in GetOutcomes : AuthenticateSettles(c, o)
    \/ \E c \in BagToSet(pending), o \in GetOutcomes : RegisterProbeSettles(c, o)
    \/ \E c \in BagToSet(pending), o \in CreateOutcomes : RegisterCreateSettles(c, o)

\* The user drives the controls of the PasskeyManager while the wallet
\* connects and disconnects.
NextMgr ==
    \/ \E w \in WalletAddresses \cup {NoAddress} : WalletChange(w)
    \/ PlatformNext
    \/ \E p \in PinFieldValues : TypePin(p)
    \/ ClickCreatePasskey
    \/ ClickAuthenticate
    \/ ClickLogout
    \/ SuccessTimeout

SpecMgrFair == Init /\ [][NextMgr]_vars /\ WF_vars(PlatformSettles)

\* A consumer that awaits each authenticate and register call before it
\* makes the next one.
NextSeq ==
    \/ AddressNext
    \/ PlatformNext
    \/ \E pin \in Pins : InFlight = 0 /\ CallAuthenticate(pin)
    \/ \E pin \in Pins : InFlight = 0 /\ CallRegister(pin)
    \/ CallLogout
    \/ CallCheckPasskey
    \/ CallRefreshPasskey
    \/ \E message \in Messages : HandleSignWithPasskey(message)

SpecSeq == Init /\ [][NextSeq]_vars

\* A signing session: the wallet connects or disconnects, a consumer
\* authenticates, signs the messages the user types, and logs out.
NextSign ==
    \/ \E w \in WalletAddresses \cup {NoAddress} : WalletChange(w)
    \/ \E pin \in Pins : CallAuthenticate(pin)
    \/ \E c \in BagToSet(pending), o \in GetOutcomes : AuthenticateSettles(c, o)
    \/ CallLogout
    \/ \E message \in SignMessages : HandleSignWithPasskey(message)

SpecSign == Init /\ [][NextSign]_vars

\* Every operation of the repository that writes to localStorage,
\* sessionStorage or IndexedDB, and the authenticate that reads IndexedDB,
\* with the inputs they are given.
NextStore ==
    \/ AddressNext
    \/ SyncCredential
    \/ \E o \in CreateOutcomes, t \in Timestamps : RegisterAndSave(o, t)
    \/ RefreshPasskeyRegistered
    \/ \E pin \in Pins, o \in GetOutcomes : AuthenticateAndMark(pin, o)
    \/ \E o \in GetOutcomes : AuthenticateStored(o)

SpecStore == Init /\ [][NextStore]_vars

\* Key derivation applied to every PIN and credential, in sessions that
\* differ by their challenge and on devices that differ by what they hold.
NextDerive ==
    \/ \E cred \in credentials, challenge \in Challenges :
           DeriveWithPin(cred, challenge)
    \/ \E cred \in credentials, challenge \in Challenges :
           DeriveWithSalt(cred, challenge)
    \/ \E p \in DerivePins : EnterPin(p)
    \/ SyncCredential

SpecDerive == InitDerive /\ [][NextDerive]_vars

\* The address screen with a session: the wallet connects or disconnects,
\* the user switches mode and types manual addresses, a consumer
\* authenticates and logs out.
NextAddr ==
    \/ \E w \in WalletAddresses \cup {NoAddress} : WalletChange(w)
    \/ \E m \in {"wallet", "manual"} : SetMode(m)
    \/ \E input \in ManualInputs : HandleSetAddress(input)
    \/ ClearManualAddress
    \/ \E pin \in Pins : CallAuthenticate(pin)
    \/ \E c \in BagToSet(pending), o \in GetOutcomes : AuthenticateSettles(c, o)
    \/ CallLogout

SpecAddr == Init /\ [][NextAddr]_vars

-----------------------------------------------------------------------------
(* Properties *)

Unauthenticated == ~isAuthenticated /\ cachedWallet = NoWallet

NotAuthenticatedError == "Please authenticate your passkey first"
InvalidPinError == "PIN must be exactly 6 digits"

\* C1: a call of authenticate(pin), for any pin, made while isAuthenticated
\* is true and an account is cached returns the cached account and starts no
\* navigator.credentials call: the pending platform calls are the same
\* before and after, and the session is left as it was.
C1_Step ==
    \A pin \in Pins :
        (isAuthenticated /\ cachedWallet # NoWallet /\ CallAuthenticate(pin))
        => /\ pending' = pending
           /\ last'.op = "authenticate" /\ last'.outcome = "ok"
           /\ last'.wallet = cachedWallet
           /\ last'.gateway = 0
           /\ UNCHANGED sessionVars
C1_FastPath == [][C1_Step]_vars

C1_Witness ==
    /\ isAuthenticated /\ cachedWallet # NoWallet
    /\ last.op = "authenticate" /\ last.outcome = "ok" /\ last.gateway = 0
    /\ last.wallet = cachedWallet

\* C2 as stated: in every state where the session is Unauthenticated, a sign
\* request for any message fails with the not-authenticated error and
\* produces no signature.
C2_ClaimStep ==
    \A message \in Messages :
        (Unauthenticated /\ HandleSignWithPasskey(message))
        => /\ last'.op = "sign" /\ last'.outcome = NotAuthenticatedError
           /\ sm'.error = NotAuthenticatedError
           /\ sm'.signature = sm.signature
C2_AsStated == [][C2_ClaimStep]_vars

\* C2 amended: in every state where the session is Unauthenticated, a sign
\* request produces no signature; when the message is not empty it fails
\* with the not-authenticated error, and when the message is empty it
\* returns without any error.
C2_Step ==
    \A message \in Messages :
        (Unauthenticated /\ HandleSignWithPasskey(message))
        => /\ sm'.signature = sm.signature
           /\ last'.op = "sign" /\ last'.wallet = NoWallet
           /\ IF message # ""
              THEN /\ last'.outcome = NotAuthenticatedError
                   /\ sm'.error = NotAuthenticatedError
              ELSE /\ last'.outcome = "ignored"
                   /\ sm'.error = sm.error
C2_SignNeedsSession == [][C2_Step]_vars

C2_Witness ==
    /\ Unauthenticated
    /\ last.op = "sign" /\ last.outcome = NotAuthenticatedError
    /\ sm.error = NotAuthenticatedError /\ sm.signature = <<>>

\* C3: authenticate(pin) called from Unauthenticated with a pin that is not
\* exactly six decimal digits fails with the invalid-PIN error, starts no
\* navigator.credentials call and leaves the session Unauthenticated.
C3_Step ==
    \A pin \in Pins :
        (/\ Len(pin) # 6 \/ (\E i \in 1..Len(pin) : pin[i] \notin Digits)
         /\ Unauthenticated
         /\ CallAuthenticate(pin))
        => /\ last'.op = "authenticate" /\ last'.outcome = InvalidPinError
           /\ last'.gateway = 0
           /\ pending' = pending
           /\ Unauthenticated'
C3_InvalidPin == [][C3_Step]_vars

C3_Witness ==
    /\ Unauthenticated
    /\ last.op = "authenticate" /\ last.outcome = InvalidPinError
    /\ pending = EmptyBag

\* C4: a step that changes the active address leaves isAuthenticated false
\* and no account cached, whatever the session was before and without any
\* logout call: the session of the previous address is never seen together
\* with the new active address.
C4_Step ==
    activeAddress' # activeAddress
    => (~isAuthenticated' /\ cachedWallet' = NoWallet)
C4_AddressChangeSignsOut == [][C4_Step]_vars

C4_Witness ==
    /\ last.op = "addressChange" /\ last.outcome = "signedOut"
    /\ activeAddress # NoAddress
    /\ Unauthenticated

\* C5 as stated: at no time are two navigator.credentials prompts of
\* authenticate or passkey setup in flight.
C5_AsStated == InFlight <= 1

\* C6: when the navigator.credentials call of an authenticate(pin) call
\* fails (rejected, null, no PRF result) or the key derived from its result
\* is not a valid key, the session is Unauthenticated with no cached account
\* after the call and the caller gets the signer's error.
C6_Step ==
    (pending' # pending)
    => \A c \in BagToSet(pending), o \in GetOutcomes :
           (/\ c.kind = "authenticate" /\ pending' = Settle(c)
            /\ SignerAuthenticate(c.pin, o).outcome # "ok"
            /\ AuthenticateSettles(c, o))
           => /\ Unauthenticated'
              /\ last'.op = "authenticate"
              /\ last'.outcome = SignerAuthenticate(c.pin, o).outcome
              /\ last'.outcome \in {"NotAllowedError", "TypeError",
                                    "Authentication failed", "invalid private key"}
C6_FailureSignsOut == [][C6_Step]_vars

C6_Witness ==
    /\ Unauthenticated
    /\ last.op = "authenticate" /\ last.gateway = 1
    /\ last.outcome = "invalid private key"

\* C7: isAuthenticated and the cached account change only in a step of
\* authenticate, of logout or of an active-address change; isAuthenticated
\* becomes true only when an authenticate call succeeds; register (its
\* call, its probe and its create), refreshPasskey, checkPasskey, the sign
\* handler, a rejected manual address and the platform's sync leave both
\* unchanged.
C7_Step ==
    /\ (sessionVars' # sessionVars)
       => \/ \E pin \in Pins : CallAuthenticate(pin)
          \/ \E c \in BagToSet(pending), o \in GetOutcomes : AuthenticateSettles(c, o)
          \/ CallLogout
          \/ activeAddress' # activeAddress
    /\ (~isAuthenticated /\ isAuthenticated')
       => \E c \in BagToSet(pending), o \in GetOutcomes :
              /\ AuthenticateSettles(c, o)
              /\ SignerAuthenticate(c.pin, o).outcome = "ok"
    /\ (sessionVars' # sessionVars)
       => ~(\/ \E pin \in Pins : CallRegister(pin)
            \/ \E c \in BagToSet(pending), o \in GetOutcomes :
                   RegisterProbeSettles(c, o)
            \/ \E c \in BagToSet(pending), o \in CreateOutcomes :
                   RegisterCreateSettles(c, o)
            \/ CallRefreshPasskey
            \/ CallCheckPasskey
            \/ \E message \in Messages : HandleSignWithPasskey(message)
            \/ \E input \in AddressInputs :
                   ValidateAddress(input) # None /\ HandleSetAddress(input)
            \/ SyncCredential)
C8_ClaimStep ==
    \A c \in BagToSet(pending), o \in GetOutcomes :
        (AuthenticateSettles(c, o) /\ c.outlived /\ ~isAuthenticated)
        => ~isAuthenticated'
C8_AsStated == [][C8_ClaimStep]_vars

\* C9 as stated: when a credential exists at the time the probe of a
\* register call is answered, the call does not go on to the create step,
\* and no step of register adds a credential to a device that has one.
C9_ClaimStep ==
    /\ \A c \in BagToSet(pending), o \in GetOutcomes :
           (RegisterProbeSettles(c, o) /\ credentials # {})
           => CopiesIn([c EXCEPT !.phase = "create"], pending')
                  <= CopiesIn([c EXCEPT !.phase = "create"], pending)
    /\ \A c \in BagToSet(pending), o \in CreateOutcomes :
           (RegisterCreateSettles(c, o) /\ credentials # {})
           => credentials' = credentials
C9_AsStated == [][C9_ClaimStep]_vars

\* C10 as stated: when a register call has created a credential, that
\* credential is the only one on the device, and the next call is a register
\* with the same PIN, the second call returns isExisting = true and the
\* credentialId the first call returned.
C10_FirstCreated ==
    /\ last.op = "register" /\ last.outcome = "ok" /\ ~last.isExisting
    /\ \E k \in credentials :
           credentials = {k} /\ last.credentialId = BufferToBase64(k)

C10_ClaimStep ==
    /\ \A c \in BagToSet(pending), o \in GetOutcomes :
           (RegisterProbeSettles(c, o) /\ ProbeFound(o) /\ C10_FirstCreated)
           => (last'.isExisting /\ last'.credentialId = last.credentialId)
    /\ \A c \in BagToSet(pending), o \in CreateOutcomes :
           (RegisterCreateSettles(c, o) /\ C10_FirstCreated /\ last'.outcome = "ok")
           => (last'.isExisting /\ last'.credentialId = last.credentialId)
C10_AsStated == [][C10_ClaimStep]_vars

\* C11 as stated: when the probe of a passkey setup finds an existing
\* credential and the platform returns its PRF output for a valid key, the
\* setup derives and caches the wallet at once: that step ends with the
\* session Authenticated and the derived account cached, so that signing
\* needs no second authentication.
C11_ClaimStep ==
    (pending' # pending)
    => \A c \in BagToSet(pending) :
           (c.kind = "register" /\ c.phase = "get" /\ pending' = Settle(c))
           => \A o \in GetOutcomes :
                  (/\ RegisterProbeSettles(c, o)
                   /\ ProbeFound(o) /\ o.prf
                   /\ IsValidKey(DeriveKey(Prf(o.cred, Sha256(c.pin)))))
                  => /\ isAuthenticated'
                     /\ cachedWallet' = <<DeriveKey(Prf(o.cred, Sha256(c.pin)))>>
C11_AsStated == [][C11_ClaimStep]_vars

\* C12 as stated: authenticate obtains the secret through findOrCreate; when
\* the credentials.get of an authenticate call made on a device without any
\* credential finds none, the call goes on to create one.
C12_ClaimStep ==
    \A c \in BagToSet(pending), o \in GetOutcomes :
        (AuthenticateSettles(c, o) /\ credentials = {} /\ ~ProbeFound(o))
        => CopiesIn([c EXCEPT !.phase = "create"], pending')
               > CopiesIn([c EXCEPT !.phase = "create"], pending)
C12_Step ==
    (pending' # pending)
    => \A c \in BagToSet(pending) :
           (c.kind = "authenticate" /\ pending' = Settle(c))
           => \A o \in GetOutcomes :
                  AuthenticateSettles(c, o)
                  => /\ credentials' = credentials
                     /\ \A d \in BagToSet(pending') :
                            d.kind = "authenticate" => d.phase = "get"
                     /\ credentials = {}
                        => /\ ~isAuthenticated' /\ cachedWallet' = NoWallet
                           /\ last'.outcome \in {"NotAllowedError", "TypeError"}
                     /\ (/\ o.kind = "assertion" /\ o.prf
                         /\ IsValidKey(DeriveKey(Prf(o.cred, Sha256(c.pin)))))
                        => /\ isAuthenticated'
                           /\ cachedWallet' = <<DeriveKey(Prf(o.cred, Sha256(c.pin)))>>
                           /\ last'.outcome = "ok" /\ last'.gateway = 1
C13_Step ==
    \A message \in SignMessages :
        (/\ isAuthenticated /\ cachedWallet # NoWallet
         /\ HandleSignWithPasskey(message))
        => /\ pending' = pending
           /\ UNCHANGED <<isAuthenticated, cachedWallet, hasPasskey, credentials>>
           /\ last'.op = "sign" /\ last'.gateway = 0
           /\ message # ""
              => /\ sm'.signature = SignMessage(cachedWallet, message)
                 /\ last'.outcome = "ok" /\ last'.wallet = cachedWallet
C14_ClaimStep ==
    (/\ last.op = "sign" /\ last.outcome = "ok"
     /\ last'.op = "sign" /\ last'.outcome = "ok")
    => last'.gateway >= 1
C14_AsStated == [][C14_ClaimStep]_vars

\* C15: in every reachable state localStorage, sessionStorage and IndexedDB
\* hold nothing but the manual address, the address mode, the lower-cased
\* addresses registered in the session, and credential records made of a
\* credential id, an address, a user name and a timestamp: no PIN, PIN
\* digest, PRF output or private key is among the stored values.
C15_NoSecretStored ==
    /\ DOMAIN storage = {"manual", "mode", "registered", "credentialStore"}
    /\ storage.manual \in {NoAddress}
           \cup {a \in AddressInputs \cup WalletAddresses : IsAddress(a)}
    /\ storage.mode \in {"null", "wallet", "manual"}
    /\ storage.registered
           \subseteq {ToLowerCase(a) : a \in AddressInputs \cup WalletAddresses}
    /\ \A r \in storage.credentialStore :
           /\ DOMAIN r = {"credentialId", "address", "username", "createdAt"}
           /\ r.credentialId \in {BufferToBase64(k) : k \in credentials}
           /\ r.address \in AddressInputs \cup WalletAddresses
           /\ r.username = TruncatedAddress(r.address)
           /\ r.createdAt \in Timestamps

C15_Witness ==
    /\ storage.credentialStore # {} /\ storage.registered # {}
    /\ storage.manual # NoAddress /\ storage.mode = "manual"
    /\ isAuthenticated /\ cachedWallet # NoWallet

\* C16 as stated: every derivation returns a private key that is nonzero
\* and below the curve order, whatever secret the platform returned.
C16_AsStated ==
    last.op = "derive"
    => (last.outcome = "ok" /\ IsValidKey(last.wallet[1]))

\* C17: two derivations that take the same credential and the same PIN (or
\* the same salt), in sessions with different challenges and on devices
\* that hold different sets of credentials, give the same outcome, the same
\* private key and account, and the same signature of the same message.
C17_Step ==
    (/\ last.op = "derive" /\ last'.op = "derive"
     /\ last'.variant = last.variant
     /\ last'.pin = last.pin /\ last'.cred = last.cred)
    => /\ last'.outcome = last.outcome
       /\ last'.wallet = last.wallet
       /\ last'.signature = last.signature
C18_ManualIsValid ==
    AddressState(mode, walletAddress, manualAddress).source = "manual"
    => /\ ~IsBlank(activeAddress)
       /\ StartsWith0x(activeAddress)
       /\ IsAddress(activeAddress)

C18_Step ==
    /\ C18_ManualIsValid'
    /\ \A input \in ManualInputs :
           (/\ HandleSetAddress(input)
            /\ (IsBlank(input) \/ ~StartsWith0x(input) \/ ~IsAddress(input)))
           => /\ UNCHANGED <<manualAddress, mode, walletAddress, storage>>
              /\ activeAddress' = activeAddress
              /\ validationError' # None
C19_ClaimStep ==
    (/\ isAuthenticated
     /\ AddressState(mode', walletAddress', manualAddress').source
            # AddressState(mode, walletAddress, manualAddress).source
     /\ activeAddress' = activeAddress)
    => (~isAuthenticated' /\ cachedWallet' = NoWallet)
C19_AsStated == [][C19_ClaimStep]_vars

\* C20: logout is unconditional and idempotent.  From any session state a
\* logout ends with no cached account and isAuthenticated false and leaves
\* hasPasskey, the address and the credentials alone; a logout made in the
\* state a logout has just produced changes nothing at all.
C20_Step ==
    CallLogout
    => /\ ~isAuthenticated' /\ cachedWallet' = NoWallet
       /\ UNCHANGED <<hasPasskey, credentials, walletAddress, manualAddress,
                      mode, storage>>
       /\ (/\ last = Done("logout", "ok")
           /\ ~isAuthenticated /\ cachedWallet = NoWallet
           /\ pending = Outlive(pending))
          => UNCHANGED vars
C20_LogoutIdempotent == [][C20_Step]_vars

C20_Witness ==
    /\ last = Done("logout", "ok")
    /\ ~isAuthenticated /\ cachedWallet = NoWallet
    /\ hasPasskey /\ pending = Outlive(pending) /\ InFlight > 0

\* The key C21 describes for a hardware secret x0 hashed once: the first
\* valid element of x0, Keccak256(x0), Keccak256(Keccak256(x0)), ...
RECURSIVE C21_FirstValid(_, _)
C21_FirstValid(x, seen) ==
    IF IsValidKey(x) \/ x \in seen THEN x
    ELSE C21_FirstValid(Keccak256(x), seen \cup {x})

\* C21 as stated: a derivation with a PIN returns the first valid element of
\* the sequence that starts at the hash of the hardware secret and goes on
\* by hashing again while the value is not a valid key.
C21_AsStated ==
    (last.op = "derive" /\ last.variant = "pin")
    => /\ last.outcome = "ok"
       /\ last.wallet =
              <<C21_FirstValid(Keccak256(Prf(last.cred, Sha256(last.pin))), {})>>

\* C22 as stated: a derivation with the fixed salt ends, either with a key
\* or with the failure DerivationUnreachable at the iteration cap.
C22_AsStated ==
    (last.op = "derive" /\ last.variant = "salt")
    => last.outcome \in {"ok", "DerivationUnreachable"}

\* C23: an authenticate call performs the authentication challenge only.
\* It never adds a credential and starts no create step.  When the device
\* holds no credential, the call of the signer in use fails (the platform
\* rejects or answers null) and leaves the credentials, isAuthenticated, the
\* cached account, hasPasskey and the stored values as they were; when no
\* credential is stored for the address, the call of the signer that keeps
\* its credentials in IndexedDB fails with 'No passkey found for this wallet
\* address' before any platform call and changes nothing.
C23_Step ==
    /\ (credentials' # credentials \/ pending' # pending)
       => /\ ~\E pin \in Pins, o \in GetOutcomes : AuthenticateAndMark(pin, o)
          /\ ~\E o \in GetOutcomes : AuthenticateStored(o)
    /\ (last'.op = "authenticate" /\ credentials = {})
       => \A pin \in Pins, o \in GetOutcomes :
              AuthenticateAndMark(pin, o)
              => /\ last'.outcome \in {"NotAllowedError", "TypeError",
                                       InvalidPinError}
                 /\ UNCHANGED <<isAuthenticated, cachedWallet, hasPasskey,
                                storage, credentials>>
    /\ (/\ last'.op = "authenticate"
        /\ \A r \in storage.credentialStore : r.address # activeAddress)
       => \A o \in GetOutcomes :
              AuthenticateStored(o)
              => /\ last'.outcome = NoPasskeyError /\ last'.gateway = 0
                 /\ UNCHANGED <<isAuthenticated, cachedWallet, hasPasskey,
                                storage, credentials>>
C24_ClaimStep ==
    (pending' # pending)
    => \A c \in BagToSet(pending), o \in GetOutcomes :
           (/\ c.kind = "register" /\ c.phase = "get" /\ pending' = Settle(c)
            /\ o.kind = "assertion" /\ ~o.prf
            /\ RegisterProbeSettles(c, o))
           => /\ last'.op = "register"
              /\ ~last'.isExisting /\ last'.outcome # "ok"
C24_AsStated == [][C24_ClaimStep]_vars

\* C25 as stated: once an attempt has failed because the platform gave no
\* PRF secret or does not support the PRF extension, no later step issues
\* another navigator.credentials call.
C25_ClaimStep ==
    (/\ last.outcome \in {"Authentication failed", "PRF extension not supported"}
     /\ mgr.error = last.outcome)
    => BagCardinality(pending') <= BagCardinality(pending)
C25_AsStated == [][C25_ClaimStep]_vars

\* C26 as stated: when an attempt of the PasskeyManager ends with the
\* prompt cancelled or with an invalid-PIN error, the PIN field is empty
\* afterwards and the active address is the one it was.
C26_ClaimStep ==
    (/\ mgr'.error # mgr.error
     /\ mgr'.error \in {"NotAllowedError", "PIN must be 6 digits",
                        InvalidPinError})
    => /\ mgr'.pin = EmptyPin
       /\ activeAddress' = activeAddress
C26_AsStated == [][C26_ClaimStep]_vars

\* C27 as stated: after a derivation with one well-formed PIN has given an
\* account, the derivation with another well-formed PIN and the same
\* credential succeeds too and gives a different account.
C27_ClaimStep ==
    (/\ last.op = "derive" /\ last'.op = "derive"
     /\ last.variant = "pin" /\ last'.variant = "pin"
     /\ last'.cred = last.cred /\ last'.pin # last.pin
     /\ last.outcome = "ok")
    => /\ last'.outcome = "ok"
       /\ last'.wallet # last.wallet
C27_AsStated == [][C27_ClaimStep]_vars

\* C28: in every state one address at most is active and its source follows
\* the mode.  In wallet mode the active address is the connected wallet's
\* address, or none when no wallet is connected, and its source is never
\* the manual address even when one is stored; in manual mode it is the
\* manual address, or none when there is none, and its source is never the
\* wallet even when one is connected.
C28_SourceFollowsMode ==
    LET st == AddressState(mode, walletAddress, manualAddress) IN
    /\ mode \in {"wallet", "manual"}
    /\ (st.source = None) <=> (st.address = NoAddress)
    /\ mode = "wallet"
       => /\ st.address = walletAddress
          /\ st.source = IF walletAddress = NoAddress THEN None ELSE "wallet"
    /\ mode = "manual"
       => /\ st.address = manualAddress
          /\ st.source = IF manualAddress = NoAddress THEN None ELSE "manual"

C28_Witness ==
    /\ mode = "wallet" /\ walletAddress = NoAddress
    /\ manualAddress \in WalletAddresses /\ storage.manual = manualAddress
    /\ activeAddress = NoAddress

\* C29: in every reachable state isAuthenticated is true exactly when an
\* account is cached; the flag and the account are set together and
\* cleared together.
C29_FlagIffCached == isAuthenticated <=> (cachedWallet # NoWallet)

C29_Witness ==
    /\ isAuthenticated /\ cachedWallet # NoWallet
    /\ \E c \in BagToSet(pending) : c.kind = "authenticate"

\* C30: every attempt started from the PasskeyManager ends with exactly one
\* outcome and isLoading is true exactly while it is pending.  In every
\* state isLoading is true exactly when a call the mounted PasskeyManager
\* awaits is with the platform; the step that ends the attempt either
\* shows the error of the call and writes no success message, or shows a
\* success message and no error; and, the platform settling every prompt
\* it shows, isLoading always returns to false.
C30_LoadingIffPending ==
    mgr.isLoading <=> \E c \in BagToSet(pending) : c.ui = "mgr"

C30_Step ==
    (mgr.isLoading /\ ~mgr'.isLoading /\ Mounted')
    => \/ /\ last'.outcome # "ok"
          /\ mgr'.error = last'.outcome /\ mgr'.success = mgr.success
       \/ /\ last'.outcome = "ok"
          /\ mgr'.error = None
          /\ mgr'.success \in {"Passkey authenticated successfully!",
                               "Passkey created successfully!",
                               "Using existing passkey for this address!"}

=============================================================================
